---- MODULE Spec2Model ----
(***************************************************************************)
(* The OAuth2 coordinator of gmail-mcp-manager: AuthService.authenticate   *)
(* with its token store, validity check, refresh and the interactive       *)
(* loopback flow (performOAuth2Flow), as called by any number of           *)
(* concurrent callers on one AuthService, and the three ways a service is  *)
(* constructed.                                                            *)
(*                                                                         *)
(* Time is kept relative to the present and counted in periods of five    *)
(* minutes: Date.now() is DateNow (0), every stored timestamp (expiry_date,*)
(* a timer's due time) is the number of periods from now, and Tick lets    *)
(* one period pass by lowering them all.  A timestamp more than one period *)
(* in the past is kept at Expired, which no comparison of the code tells   *)
(* from any other past time.                                               *)
(***************************************************************************)
EXTENDS Integers, Sequences, FiniteSets, TLC

\* ---------------------------------------------------------------- bounds
NumCallers == 2        \* concurrent authenticate() calls on the one AuthService
MaxExpiry == 2         \* largest expiry_date of a credential, periods from now
MaxRequests == 1       \* callback requests one listener handles in the model
NumLookups == 2        \* concurrent getRelevantDocumentation() calls
MaxMessages == 2       \* message ids of one batch operation

\* ------------------------------------------------------- program constants
FiveMinutes == 1       \* 5 * 60 * 1000 ms, in periods of five minutes
CallbackPort == 3000          \* server.listen(3000, ...)
CacheDuration == 6            \* CACHE_DURATION = 30 * 60 * 1000 ms, in periods
DefaultRedirectPort == 3000   \* 'http://localhost:3000/oauth2callback'

Callers == 1..NumCallers
DocCallers == 1..NumLookups

\* one caller more: the callers of a race that more than two take part in
Crowd == 1..(NumLookups + 1)
DateNow == 0
Expired == DateNow - 1
NoExpiry == Expired - 1      \* expiry_date undefined: no timestamp has this value
NULL == "null"

Max(a, b) == IF a > b THEN a ELSE b

\* ------------------------------------------------------------- error types
\* GmailMCPError and its subclasses: name, code, statusCode, message.  A
\* message is the sequence of the pieces the code concatenates.
AuthenticationError(message) ==
    [name |-> "AuthenticationError", code |-> "AUTHENTICATION_ERROR",
     statusCode |-> 401, message |-> message]

APIError(message, statusCode) ==
    [name |-> "APIError", code |-> "API_ERROR",
     statusCode |-> statusCode, message |-> message]

\* a plain Error thrown by a library or by `throw new Error(...)`
PlainError(message) ==
    [name |-> "Error", code |-> NULL, statusCode |-> 0, message |-> message]

NoError == [name |-> NULL, code |-> NULL, statusCode |-> 0, message |-> <<>>]

WrapUnknown(prefix, error) == <<prefix, "Unknown error">>

\* `${prefix}${error instanceof Error ? error.message : 'Unknown error'}`
Wrap(prefix, error) == <<prefix>> \o error.message

\* String.prototype.indexOf on a string kept as a sequence of pieces:
\* the first position of the piece, -1 when it is absent.
IndexOf(s, piece) ==
    IF \E i \in 1..Len(s) : s[i] = piece
    THEN (CHOOSE i \in 1..Len(s) : s[i] = piece /\ \A j \in 1..(i-1) : s[j] /= piece) - 1
    ELSE -1

Contains(s, piece) == IndexOf(s, piece) > -1

\* ------------------------------------------------------------- credentials
\* TokenData / the OAuth2Client's credentials.  {} is the empty record.
Credential(access, refresh, expiry) ==
    [access_token |-> access, refresh_token |-> refresh, expiry_date |-> expiry]

EmptyCredentials == Credential(NULL, NULL, NoExpiry)

\* the token file: absent, or present with a mode and the JSON of a record
NoFile == [exists |-> FALSE, mode |-> "none", content |-> EmptyCredentials]
File(content) == [exists |-> TRUE, mode |-> "0600", content |-> content]

\* a token file put there by something else (copied, restored, made by an
\* editor): the permissions a default umask gives
ForeignFile(content) == [exists |-> TRUE, mode |-> "0644", content |-> content]

\* fs.writeFile(path, data, { mode: 0o600 }): the mode is applied when the
\* file is created; an existing file is truncated and keeps its permissions
WriteFile(file, content) ==
    [exists |-> TRUE,
     mode |-> IF file.exists THEN file.mode ELSE "0600",
     content |-> content]

\* one period passes for a timestamp
Later(t) == IF t = NoExpiry THEN NoExpiry ELSE Max(t - 1, Expired)

Age(c) == [c EXCEPT !.expiry_date = Later(@)]

\* what the token endpoint hands out (refreshAccessToken, getToken)
FreshCredential(access) == Credential(access, "rtk", DateNow + MaxExpiry)

\* the records a token file holds: saved ones, and one lacking access_token
StoredCredentials ==
    { Credential("atk_stored", "rtk", e) : e \in {NoExpiry} \cup (Expired..MaxExpiry) }
        \cup { Credential(NULL, "rtk", NoExpiry) }

\* ---------------------------------------------------------------- requests
\* req.url as the pieces of the string: the path, then the query.
Url(path, code, error) ==
    path
    \o (IF code = NULL /\ error = NULL THEN <<>> ELSE <<"?">>)
    \o (IF code = NULL THEN <<>> ELSE <<"code=", code>>)
    \o (IF code = NULL \/ error = NULL THEN <<>> ELSE <<"&">>)
    \o (IF error = NULL THEN <<>> ELSE <<"error=", error>>)

\* the requests a listener is sent in the model
Requests ==
    { Url(<<"/oauth2callback">>, "4/0AbCd", NULL),
      Url(<<"/oauth2callback">>, NULL, "access_denied"),
      Url(<<"/oauth2callback">>, "4/0AbCd", "access_denied"),
      Url(<<"/oauth2callback">>, NULL, NULL),
      Url(<<"/oauth2callback">>, "", ""),
      Url(<<"/favicon.ico">>, NULL, NULL),
      Url(<<"/robots.txt">>, "4/0AbCd", NULL),
      Url(<<"/static", "/oauth2callback">>, "4/0AbCd", NULL) }

IsCallbackAnyUrl(url) == TRUE

\* req.url && req.url.indexOf('/oauth2callback') > -1
IsCallback(url) == IndexOf(url, "/oauth2callback") > -1

\* new URL(req.url, base).searchParams.get(name)
SearchParam(url, name) ==
    IF Contains(url, "?") /\ Contains(url, name)
    THEN url[IndexOf(url, name) + 2]
    ELSE NULL

\* JavaScript truthiness of a string or null
Truthy(v) == v /= NULL /\ v /= ""

\* ------------------------------------------------------------------ state
VARIABLES
    config,        \* GmailMCPConfig.oauth2: clientId, clientSecret ('' when unset), redirectUri
    service,       \* the AuthService: "none", "constructed", or "failed"
    thrown,        \* what construction threw (NoError when nothing)
    tokenFile,     \* the file at tokenStoragePath
    credentials,   \* oAuth2Client.credentials, shared by every caller
    call,          \* per caller: the activation of authenticate()
    flow,          \* per caller: the performOAuth2Flow promise, server and timer
    network,       \* TRUE once any request to Google has been issued
    logout,        \* the activation of logout()
    enabled,       \* Context7Service.enabled
    cache,         \* Context7Service.cache: Map from key to response
    cacheExpiry,   \* Context7Service.cacheExpiry: Map from key to timestamp
    lookup,        \* per caller: the activation of getRelevantDocumentation()
    batch          \* the activation of GmailService.performBatchOperation()

vars == <<config, service, thrown, tokenFile, credentials, call, flow, network,
          logout, enabled, cache, cacheExpiry, lookup, batch>>

\* the state of the Context7Service
context7 == <<enabled, cache, cacheExpiry, lookup>>

\* the state of the operations other than authenticate()
outside == <<logout, context7, batch>>

\* the state of the AuthService
authService ==
    <<config, service, thrown, tokenFile, credentials, call, flow, network, logout>>

\* the state of the AuthService and of the GmailService over it
auth == <<authService, batch>>

\* an authenticate() activation that has not been called
NoCall ==
    [pc |-> "idle", error |-> NoError, content |-> EmptyCredentials, refreshes |-> 0]

\* a logout() that has not been called
NoLogout == [pc |-> "idle", error |-> NoError]

\* performOAuth2Flow not entered
NoFlow ==
    [promise |-> "none", reason |-> NoError, by |-> "none",
     server |-> "none", destroyCalls |-> 0, browser |-> FALSE,
     timer |-> "none", due |-> 0, getToken |-> "none",
     matched |-> 0, first |-> <<>>, unhandled |-> 0]

\* oauth2.redirectUri, by the port it names
RedirectUri(port) == [host |-> "localhost", port |-> port, path |-> "/oauth2callback"]

\* process.env['GOOGLE_REDIRECT_URI'] || 'http://localhost:3000/oauth2callback'
DefaultRedirectUri == RedirectUri(DefaultRedirectPort)

Configs ==
    [clientId : {"", "id"}, clientSecret : {"", "secret"},
     redirectUri : {DefaultRedirectUri}]

\* complete configurations, with the default and with another redirect URI
RedirectConfigs ==
    [clientId : {"id"}, clientSecret : {"secret"},
     redirectUri : {DefaultRedirectUri, RedirectUri(DefaultRedirectPort + 1)}]

\* the configuration of the default .env: id, secret, default redirect URI
CompleteConfig ==
    [clientId |-> "id", clientSecret |-> "secret", redirectUri |-> DefaultRedirectUri]

\* !config.oauth2.clientId || !config.oauth2.clientSecret
MissingCredentials(c) == ~Truthy(c.clientId) \/ ~Truthy(c.clientSecret)

\* -------------------------------------------------------- Context7Service
\* a Map: a function whose domain is the set of the keys present
EmptyMap == [k \in {} |-> NULL]

MapHas(m, k) == k \in DOMAIN m

MapSet(m, k, v) == [x \in DOMAIN m \cup {k} |-> IF x = k THEN v ELSE m[x]]

MapDelete(m, k) == [x \in DOMAIN m \ {k} |-> m[x]]

\* the (operation, context) pairs documentation is asked for; strings are
\* sequences of pieces, an absent context is the empty one
DocRequest(operation, context) == [operation |-> operation, context |-> context]

DocRequests ==
    { DocRequest(<<"listMessages">>, <<>>),
      DocRequest(<<"listMessages">>, <<"default">>),
      DocRequest(<<"getMessage">>, <<"format: full">>) }

\* also pairs of the public getDocumentation(operation, context), whose
\* strings are free: '-' may occur in the operation and in the context
KeyRequests ==
    { DocRequest(<<"listMessages">>, <<>>),
      DocRequest(<<"listMessages">>, <<"default">>),
      DocRequest(<<"getMessage">>, <<"format", "-", "full">>),
      DocRequest(<<"getMessage", "-", "format">>, <<"full">>) }

\* `${operation}-${context || 'default'}`
CacheKey(operation, context) ==
    operation \o <<"-">> \o (IF context = <<>> THEN <<"default">> ELSE context)

\* operationMap[operation] || `Gmail API ${operation}`
BaseSearch(operation) ==
    IF operation = <<"authenticate">> THEN <<"Gmail API OAuth2 authentication">>
    ELSE IF operation = <<"listMessages">> THEN <<"Gmail API list messages">>
    ELSE IF operation = <<"getMessage">> THEN <<"Gmail API get message details">>
    ELSE IF operation = <<"sendMessage">> THEN <<"Gmail API send email">>
    ELSE <<"Gmail API ">> \o operation

\* mapOperationToSearchTerm: context ? `${baseSearch} ${context}` : baseSearch
MapOperationToSearchTerm(operation, context) ==
    IF context /= <<>> THEN BaseSearch(operation) \o <<" ">> \o context
    ELSE BaseSearch(operation)

\* a Context7Response, by its documentation text; null is NoResponse
Response(documentation) == [found |-> TRUE, documentation |-> documentation]

NoResponse == [found |-> FALSE, documentation |-> <<>>]

\* getMockDocumentation: the stock response whose key matches the search
\* term, else the placeholder `Documentation for: ${searchTerm}`
GetMockDocumentation(searchTerm) ==
    IF Contains(searchTerm, "Gmail API OAuth2 authentication")
    THEN Response(<<"OAuth2 authentication for Gmail API requires:">>)
    ELSE IF Contains(searchTerm, "Gmail API list messages")
    THEN Response(<<"List messages endpoint allows filtering and pagination:">>)
    ELSE IF Contains(searchTerm, "Gmail API send email")
    THEN Response(<<"Send email using raw MIME format:">>)
    ELSE Response(<<"Documentation for: ">> \o searchTerm)

IsLiveNever(m, expiry, key, now) == FALSE

IsLiveAtExpiry(m, expiry, key, now) ==
    MapHas(m, key) /\ MapHas(expiry, key) /\ now <= expiry[key]

\* getCachedResponse: cached && expiry && Date.now() < expiry
IsLive(m, expiry, key, now) ==
    /\ MapHas(m, key)
    /\ MapHas(expiry, key)
    /\ now < expiry[key]

\* getCachedResponse: what stays in a map after the lookup of key (a stale
\* entry of the key is deleted when the value map has it)
AfterLookup(map, key, live, cached) ==
    IF ~live /\ cached THEN MapDelete(map, key) ELSE map

ShortCircuitNever(en) == FALSE

\* if (!this.enabled) return null
ShortCircuit(en) == ~en

\* a getRelevantDocumentation() that has not been called; cleared records,
\* while its fetch is awaited, that clearCache() has run since it began
NoLookup ==
    [pc |-> "idle", key |-> <<>>, searchTerm |-> <<>>, result |-> NoResponse,
     source |-> "none", cleared |-> FALSE]

OnFetchErrorPropagated(l) == [l EXCEPT !.pc = "threw", !.source = "error"]

\* the catch of getRelevantDocumentation: return null
OnFetchError(l) ==
    [l EXCEPT !.pc = "returned", !.result = NoResponse, !.source = "error"]

\* getRelevantDocumentation(operation, context) is called: null when
\* disabled, the cached response when live, else `await fetchFromContext7`
GetRelevantDocumentation(d, requests) ==
    /\ lookup[d].pc \in {"idle", "returned"}
    /\ \E r \in requests :
         LET key == CacheKey(r.operation, r.context)
             live == IsLive(cache, cacheExpiry, key, DateNow)
             cached == MapHas(cache, key)
         IN  IF ShortCircuit(enabled)
             THEN /\ lookup' = [lookup EXCEPT ![d] =
                                   [NoLookup EXCEPT !.pc = "returned",
                                                    !.source = "disabled"]]
                  /\ UNCHANGED <<cache, cacheExpiry>>
             ELSE /\ cache' = AfterLookup(cache, key, live, cached)
                  /\ cacheExpiry' = AfterLookup(cacheExpiry, key, live, cached)
                  /\ lookup' = [lookup EXCEPT ![d] =
                        IF live
                        THEN [NoLookup EXCEPT !.pc = "returned", !.key = key,
                                              !.result = cache[key],
                                              !.source = "cache"]
                        ELSE [NoLookup EXCEPT
                                 !.pc = "fetchFromContext7", !.key = key,
                                 !.searchTerm = MapOperationToSearchTerm(
                                                    r.operation, r.context)]]
    /\ UNCHANGED <<auth, enabled>>

SetCachedValueOnly(m, expiry, key, response, now) ==
    [cache |-> MapSet(m, key, response), cacheExpiry |-> expiry]

\* setCachedResponse(key, response): both maps after it
SetCachedResponse(m, expiry, key, response, now) ==
    [cache |-> MapSet(m, key, response),
     cacheExpiry |-> MapSet(expiry, key, now + CacheDuration)]

\* fetchFromContext7 returns (the response is cached for CACHE_DURATION and
\* returned) or throws (the stand-in of the source never does; the Context7
\* call it stands for can)
FetchFromContext7(d) ==
    /\ lookup[d].pc = "fetchFromContext7"
    /\ \E fetched \in BOOLEAN :
         IF fetched
         THEN LET documentation == GetMockDocumentation(lookup[d].searchTerm)
                  stored == SetCachedResponse(cache, cacheExpiry, lookup[d].key,
                                              documentation, DateNow)
              IN
              /\ cache' = stored.cache
              /\ cacheExpiry' = stored.cacheExpiry
              /\ lookup' = [lookup EXCEPT ![d].pc = "returned",
                                           ![d].result = documentation,
                                           ![d].source = "fetch",
                                           ![d].cleared = FALSE]
         ELSE /\ lookup' = [lookup EXCEPT
                                ![d] = [OnFetchError(@) EXCEPT !.cleared = FALSE]]
              /\ UNCHANGED <<cache, cacheExpiry>>
    /\ UNCHANGED <<auth, enabled>>

\* setEnabled(enabled)
SetEnabled ==
    /\ \E b \in BOOLEAN : enabled' = b
    /\ UNCHANGED <<auth, cache, cacheExpiry, lookup>>

ClearedButOne(m) ==
    IF DOMAIN m = {} THEN m ELSE MapDelete(m, CHOOSE k \in DOMAIN m : TRUE)

\* Map.clear(): the map after it
Cleared(m) == EmptyMap

\* clearCache()
ClearCache ==
    /\ cache' = Cleared(cache)
    /\ cacheExpiry' = Cleared(cacheExpiry)
    /\ lookup' = [d \in DOMAIN lookup |->
                    [lookup[d] EXCEPT !.cleared = (lookup[d].pc = "fetchFromContext7")]]
    /\ UNCHANGED <<auth, enabled>>

\* getCacheStats()
GetCacheStats == [size |-> Cardinality(DOMAIN cache), keys |-> DOMAIN cache]

\* a manager operation (listMessages, ...) over its documentation lookup l:
\* `await getRelevantDocumentation(...)`, then the call of the GmailService
PrimaryOperation(l) ==
    IF l.pc = "returned" THEN "called"
    ELSE IF l.pc = "threw" THEN "failed"
    ELSE "waiting"

\* ----------------------------------------------------------- GmailService
\* GmailService.initialize() over an authenticate() activation c that has
\* ended: this.gmail is set, or the error is wrapped in an APIError (500).
\* GmailMCPManager.initialize() and ensureInitialized() let it through.
GmailInitialize(c) ==
    IF c.pc = "threw"
    THEN [gmail |-> FALSE,
          error |-> APIError(Wrap("Failed to initialize Gmail API: ", c.error), 500)]
    ELSE [gmail |-> c.pc = "returned", error |-> NoError]

\* the authenticate() activations ensureInitialized() can end on
EndedCalls ==
    { [NoCall EXCEPT !.pc = "returned"],
      [NoCall EXCEPT !.pc = "threw",
                     !.error = AuthenticationError(
                                   <<"Authentication timeout - please try again">>)] }

\* type EmailAction
EmailAction == {"read", "unread", "archive", "delete", "trash", "spam"}

\* the actions answered by one messages.batchModify call
ModifyActions == EmailAction \ {"trash"}

\* a BatchOperation; labelIds is optional (NULL when absent)
BatchOperations ==
    [ messageIds : { [i \in 1..n |-> i] : n \in 0..MaxMessages },
      action : EmailAction \cup {"star"},
      labelIds : {NULL, <<>>, <<"Label_1">>} ]

\* a performBatchOperation() that has not been called
NoBatch ==
    [pc |-> "idle", operation |-> NULL, remote |-> <<>>, error |-> NoError,
     at |-> "none"]

\* what a call of the Gmail API throws: an error of the HTTP client, which
\* has the response's status, or an error without one
GaxiosError(status) ==
    [name |-> "Error", code |-> NULL, statusCode |-> 0,
     message |-> <<"Insufficient Permission">>, status |-> status]

RemoteErrors == { GaxiosError(403), PlainError(<<"socket hang up">>), PlainError(<<>>) }

\* error.status (undefined, here 0, on an object without the property)
ErrorStatus(error) == IF "status" \in DOMAIN error THEN error.status ELSE 0

\* the catch of performBatchOperation: new APIError(`Failed to perform batch
\* operation: ${error.message || 'Unknown error'}`, error.status || 500)
BatchCatch(error) ==
    APIError(<<"Failed to perform batch operation: ">>
                 \o (IF error.message /= <<>> THEN error.message
                     ELSE <<"Unknown error">>),
             IF ErrorStatus(error) /= 0 THEN ErrorStatus(error) ELSE 500)

\* the activation after an error was thrown inside the try block
BatchThrew(b, error) ==
    [b EXCEPT !.pc = "threw", !.error = BatchCatch(error), !.at = "catch"]

\* labelIds && labelIds.length > 0
HasLabels(labelIds) == labelIds /= NULL /\ Len(labelIds) > 0

\* performBatchOperation(operation) is called: `await ensureInitialized()`,
\* outside the try block
PerformBatchOperation ==
    /\ batch.pc \in {"idle", "returned", "threw"}
    /\ \E operation \in BatchOperations, c \in EndedCalls :
         batch' = IF GmailInitialize(c).gmail
                  THEN [NoBatch EXCEPT !.pc = "switch", !.operation = operation]
                  ELSE [NoBatch EXCEPT !.pc = "threw", !.operation = operation,
                                       !.error = GmailInitialize(c).error,
                                       !.at = "ensureInitialized"]
    /\ UNCHANGED <<authService, context7>>

\* switch (action): one batchModify, or one messages.trash per message id,
\* or the throw of the default case; each call returns or throws
BatchSwitch ==
    /\ batch.pc = "switch"
    /\ LET action == batch.operation.action
           ids == batch.operation.messageIds
       IN  IF action \in ModifyActions
           THEN \/ batch' = [batch EXCEPT !.pc = "labels",
                                          !.remote = Append(@, "batchModify")]
                \/ \E error \in RemoteErrors :
                     batch' = BatchThrew([batch EXCEPT
                                  !.remote = Append(@, "batchModify")], error)
           ELSE IF action = "trash"
           THEN IF Len(batch.remote) < Len(ids)
                THEN \/ batch' = [batch EXCEPT !.remote = Append(@, "trash")]
                     \/ \E error \in RemoteErrors :
                          batch' = BatchThrew([batch EXCEPT
                                       !.remote = Append(@, "trash")], error)
                ELSE batch' = [batch EXCEPT !.pc = "labels"]
           ELSE batch' = BatchThrew(batch,
                             APIError(<<"Unknown action: ", action>>, 400))
    /\ UNCHANGED <<authService, context7>>

\* the additional labels, when given: one more batchModify
BatchLabels ==
    /\ batch.pc = "labels"
    /\ IF HasLabels(batch.operation.labelIds)
       THEN \/ batch' = [batch EXCEPT !.pc = "returned",
                                      !.remote = Append(@, "batchModify")]
            \/ \E error \in RemoteErrors :
                 batch' = BatchThrew([batch EXCEPT
                              !.remote = Append(@, "batchModify")], error)
       ELSE batch' = [batch EXCEPT !.pc = "returned"]
    /\ UNCHANGED <<authService, context7>>

\* ----------------------------------------------------------- construction
InitLookups(cfgs, files, callers) ==
    /\ config \in cfgs
    /\ service = "none"
    /\ thrown = NoError
    /\ tokenFile \in files
    /\ credentials = EmptyCredentials
    /\ call = [p \in Callers |-> NoCall]
    /\ flow = [p \in Callers |-> NoFlow]
    /\ network = FALSE
    /\ logout = NoLogout
    /\ enabled = TRUE
    /\ cache = EmptyMap
    /\ cacheExpiry = EmptyMap
    /\ lookup = [d \in callers |-> NoLookup]
    /\ batch = NoBatch

\* a manager whose documentation is asked for by the DocCallers
InitFrom(cfgs, files) == InitLookups(cfgs, files, DocCallers)

\* no token file, or one the program saved
SavedFiles == {NoFile} \cup { File(c) : c \in StoredCredentials }

\* also a token file with other permissions than the program gives
AnyFiles == SavedFiles \cup { ForeignFile(c) : c \in StoredCredentials }

InitWith(cfgs) == InitFrom(cfgs, SavedFiles)

\* client id and secret are configured
Init == InitWith({CompleteConfig})

\* any token file
InitAnyFile == InitFrom({CompleteConfig}, AnyFiles)

\* any redirect URI
InitAnyRedirect == InitWith(RedirectConfigs)

\* any configuration, the incomplete ones included
InitAnyConfig == InitWith(Configs)

\* AuthService.fromEnvironment()
FromEnvironment ==
    /\ service = "none"
    /\ IF MissingCredentials(config)
       THEN /\ service' = "failed"
            /\ thrown' = AuthenticationError(
                   <<"Missing required environment variables: GOOGLE_CLIENT_ID and GOOGLE_CLIENT_SECRET">>)
       ELSE /\ service' = "constructed"
            /\ thrown' = NoError
    /\ UNCHANGED <<outside, config, tokenFile, credentials, call, flow, network>>

\* createFromEnvironment()
CreateFromEnvironment ==
    /\ service = "none"
    /\ IF MissingCredentials(config)
       THEN /\ service' = "failed"
            /\ thrown' = PlainError(
                   <<"Missing required environment variables: GOOGLE_CLIENT_ID and GOOGLE_CLIENT_SECRET">>)
       ELSE /\ service' = "constructed"
            /\ thrown' = NoError
    /\ UNCHANGED <<outside, config, tokenFile, credentials, call, flow, network>>

\* new AuthService(config), also through new GmailMCPManager(config)
Constructor ==
    /\ service = "none"
    /\ service' = "constructed"
    /\ UNCHANGED <<outside, config, thrown, tokenFile, credentials, call, flow, network>>

\* ------------------------------------------------- the interactive flow
\* server.destroy(): server.close() and every open connection destroyed
ServerDestroy(f) ==
    [f EXCEPT !.server = IF @ = "none" THEN @ ELSE "destroyed",
              !.destroyCalls = @ + 1]

\* reject(err) of the flow's promise: a settled promise stays as it is
Reject(f, err, by) ==
    IF f.promise = "pending"
    THEN [f EXCEPT !.promise = "rejected", !.reason = err, !.by = by]
    ELSE f

\* resolve(this.oAuth2Client)
Resolve(f, by) ==
    IF f.promise = "pending"
    THEN [f EXCEPT !.promise = "resolved", !.by = by]
    ELSE f

\* no server of this process is bound to port 3000
PortFree == \A q \in Callers : flow[q].server /= "listening"

\* the executor of the promise: createServer, listen(3000) with the browser
\* opened from its callback, destroyer(server), setTimeout(5 minutes).  On an
\* occupied port listen() fails to bind and its callback never runs.
NewFlow ==
    [NoFlow EXCEPT !.promise = "pending",
                   !.server = IF PortFree THEN "listening" ELSE "EADDRINUSE",
                   !.browser = PortFree,
                   !.timer = "armed",
                   !.due = DateNow + FiveMinutes]

\* the catch block of the request handler; when its res.end throws, the
\* handler's own promise rejects with nothing awaiting it
HandlerCatch(f, err, endThrows) ==
    IF endThrows
    THEN [f EXCEPT !.unhandled = @ + 1]
    ELSE Reject(ServerDestroy(f), err, "catch")

WriteError == PlainError(<<"write failed">>)

\* the request handler up to its first await
OnRequest(f, url, endThrows, endThrowsAgain) ==
    IF ~IsCallback(url)
    THEN f
    ELSE LET code == SearchParam(url, "code=")
             error == SearchParam(url, "error=")
             g == [f EXCEPT !.matched = @ + 1,
                            !.first = IF @ = <<>> THEN url ELSE @]
         IN  IF endThrows
             THEN HandlerCatch(g, WriteError, endThrowsAgain)
             ELSE IF Truthy(error)
             THEN Reject(ServerDestroy(g),
                         AuthenticationError(<<"OAuth2 error: ", error>>), "request")
             ELSE IF ~Truthy(code)
             THEN Reject(ServerDestroy(g),
                         AuthenticationError(<<"No authorization code received">>), "request")
             ELSE [ServerDestroy(g) EXCEPT !.getToken = "pending"]

OnTimeoutDestroyOnly(f) == ServerDestroy([f EXCEPT !.timer = "fired"])

\* the setTimeout callback
OnTimeout(f) ==
    Reject(ServerDestroy([f EXCEPT !.timer = "fired"]),
           AuthenticationError(<<"Authentication timeout - please try again">>),
           "timeout")

\* ------------------------------------------------------------ authenticate
ExpiresSoonUncompared(expiryDate, now) == expiryDate /= NoExpiry

\* expiryDate && expiryDate - Date.now() < 5 * 60 * 1000
ExpiresSoon(expiryDate, now) ==
    expiryDate /= NoExpiry /\ expiryDate - now < FiveMinutes

EnterFlowSurfaced(p) ==
    /\ flow' = flow
    /\ call' = [call EXCEPT ![p].pc = "threw",
                              ![p].content = EmptyCredentials,
                              ![p].error = AuthenticationError(
                                  Wrap("Authentication failed: ",
                                       PlainError(<<"invalid_token">>)))]

\* authenticate() falls through to `await this.performOAuth2Flow()`
EnterFlow(p) ==
    /\ flow' = [flow EXCEPT ![p] = NewFlow]
    /\ call' = [call EXCEPT ![p].pc = "performOAuth2Flow",
                              ![p].content = EmptyCredentials]

\* a caller invokes authenticate(): `await this.loadTokens()`
Authenticate(p) ==
    /\ service = "constructed"
    /\ call[p].pc = "idle"
    /\ call' = [call EXCEPT ![p].pc = "loadTokens"]
    /\ UNCHANGED <<outside, config, service, thrown, tokenFile, credentials, flow, network>>

\* loadTokens() returns: the parsed file, or null when the read or the parse
\* fails.  With tokens: setCredentials, then isTokenValid() awaits getTokenInfo.
LoadTokens(p) ==
    /\ call[p].pc = "loadTokens"
    /\ \E readable \in BOOLEAN :
         IF tokenFile.exists /\ readable
         THEN /\ credentials' = tokenFile.content
              /\ call' = [call EXCEPT ![p].pc = "getTokenInfo",
                                        ![p].content = tokenFile.content]
              /\ network' = TRUE
              /\ UNCHANGED flow
         ELSE /\ EnterFlow(p)
              /\ UNCHANGED <<credentials, network>>
    /\ UNCHANGED <<outside, config, service, thrown, tokenFile>>

\* getTokenInfo(access_token) returns or throws (it throws for a missing
\* token); on return the expiry check of isTokenValid
IsTokenValid(p) ==
    /\ call[p].pc = "getTokenInfo"
    /\ \E tokenInfo \in (IF Truthy(call[p].content.access_token)
                          THEN BOOLEAN ELSE {FALSE}) :
         IF tokenInfo
         THEN /\ IF ExpiresSoon(credentials.expiry_date, DateNow)
                 THEN call' = [call EXCEPT ![p].pc = "refreshAccessToken",
                                           ![p].content = EmptyCredentials,
                                           ![p].refreshes = @ + 1]
                 ELSE call' = [call EXCEPT ![p].pc = "returned",
                                           ![p].content = EmptyCredentials]
              /\ UNCHANGED flow
         ELSE EnterFlow(p)
    /\ UNCHANGED <<outside, config, service, thrown, tokenFile, credentials, network>>

\* refreshToken(): refreshAccessToken returns (setCredentials, then saveTokens
\* of the response) or throws (isTokenValid answers false)
RefreshToken(p) ==
    /\ call[p].pc = "refreshAccessToken"
    /\ \E refreshed \in BOOLEAN :
         IF refreshed
         THEN /\ credentials' = FreshCredential("atk_refreshed")
              /\ call' = [call EXCEPT ![p].pc = "saveRefreshed",
                                        ![p].content = FreshCredential("atk_refreshed")]
              /\ UNCHANGED flow
         ELSE /\ EnterFlow(p)
              /\ UNCHANGED credentials
    /\ UNCHANGED <<outside, config, service, thrown, tokenFile, network>>

\* saveTokens() inside refreshToken(): written, or the write fails and the
\* AuthenticationError ends in isTokenValid's catch
SaveRefreshed(p) ==
    /\ call[p].pc = "saveRefreshed"
    /\ \E written \in BOOLEAN :
         IF written
         THEN /\ tokenFile' = WriteFile(tokenFile, call[p].content)
              /\ call' = [call EXCEPT ![p].pc = "returned", ![p].content = EmptyCredentials]
              /\ UNCHANGED flow
         ELSE /\ EnterFlow(p)
              /\ UNCHANGED tokenFile
    /\ UNCHANGED <<outside, config, service, thrown, credentials, network>>

\* saveTokens() after the flow: written, or AuthenticationError
SaveTokens(p) ==
    /\ call[p].pc = "saveTokens"
    /\ \E written \in BOOLEAN :
         IF written
         THEN /\ tokenFile' = WriteFile(tokenFile, call[p].content)
              /\ call' = [call EXCEPT ![p].pc = "returned", ![p].content = EmptyCredentials]
         ELSE /\ call' = [call EXCEPT ![p].pc = "threw",
                             ![p].content = EmptyCredentials,
                             ![p].error = AuthenticationError(
                                 Wrap("Authentication failed: ",
                                      AuthenticationError(
                                          Wrap("Failed to save tokens: ",
                                               PlainError(<<"EACCES">>)))))]
              /\ UNCHANGED tokenFile
    /\ UNCHANGED <<outside, config, service, thrown, credentials, flow, network>>

\* ------------------------------------------------------------------ logout
\* logout() is called: with an access token `await revokeCredentials()`,
\* which empties the client's credentials before it sends the revocation;
\* without one it goes on to `await fs.unlink(...)`
Logout ==
    /\ service = "constructed"
    /\ logout.pc = "idle"
    /\ IF Truthy(credentials.access_token)
       THEN /\ logout' = [logout EXCEPT !.pc = "revokeCredentials"]
            /\ credentials' = EmptyCredentials
            /\ network' = TRUE
       ELSE /\ logout' = [logout EXCEPT !.pc = "unlink"]
            /\ UNCHANGED <<credentials, network>>
    /\ UNCHANGED <<context7, batch, config, service, thrown, tokenFile, call, flow>>

\* the revocation request returns, or throws into the outer catch
RevokeCredentials ==
    /\ logout.pc = "revokeCredentials"
    /\ \E revoked \in BOOLEAN :
         logout' = IF revoked
                   THEN [logout EXCEPT !.pc = "unlink"]
                   ELSE [logout EXCEPT
                            !.pc = "threw",
                            !.error = AuthenticationError(
                                Wrap("Logout failed: ", PlainError(<<"ETIMEDOUT">>)))]
    /\ UNCHANGED <<context7, batch, config, service, thrown, tokenFile, credentials, call, flow, network>>

\* fs.unlink returns or throws (ignored), then setCredentials({})
Unlink ==
    /\ logout.pc = "unlink"
    /\ \E removed \in BOOLEAN :
         tokenFile' = IF removed THEN NoFile ELSE tokenFile
    /\ credentials' = EmptyCredentials
    /\ logout' = [logout EXCEPT !.pc = "returned"]
    /\ UNCHANGED <<context7, batch, config, service, thrown, call, flow, network>>

\* getAuthenticatedClient() on the client's credentials
GetAuthenticatedClient(creds) ==
    IF ~Truthy(creds.access_token)
    THEN [client |-> FALSE,
          error |-> AuthenticationError(
                        <<"No valid authentication. Please run authenticate() first.">>)]
    ELSE [client |-> TRUE, error |-> NoError]

\* --------------------------------------------------- events of the flow
\* `await this.performOAuth2Flow()` continues as soon as the promise settles
\* (from f to g): on resolve saveTokens(client.credentials) is called, on
\* reject the catch of authenticate() wraps the reason
AwaitFlow(c, f, g, creds) ==
    IF f.promise = "pending" /\ g.promise = "resolved"
    THEN [c EXCEPT !.pc = "saveTokens", !.content = creds]
    ELSE IF f.promise = "pending" /\ g.promise = "rejected"
    THEN [c EXCEPT !.pc = "threw",
                   !.error = AuthenticationError(Wrap("Authentication failed: ", g.reason))]
    ELSE c

\* an HTTP request reaches the listening server
HandleRequest(p, EndThrows) ==
    /\ flow[p].server = "listening"
    /\ flow[p].matched < MaxRequests
    /\ \E url \in Requests, t1 \in EndThrows, t2 \in EndThrows :
         LET g == OnRequest(flow[p], url, t1, t2) IN
         /\ flow' = [flow EXCEPT ![p] = g]
         /\ call' = [call EXCEPT ![p] = AwaitFlow(@, flow[p], g, credentials)]
         /\ network' = (network \/ g.getToken = "pending")
    /\ UNCHANGED <<outside, config, service, thrown, tokenFile, credentials>>

\* `await this.oAuth2Client.getToken(code)` returns or throws
GetToken(p, EndThrows) ==
    /\ flow[p].getToken = "pending"
    /\ \E exchanged \in BOOLEAN, t \in EndThrows :
         LET g == IF exchanged
                  THEN Resolve([flow[p] EXCEPT !.getToken = "returned"], "getToken")
                  ELSE HandlerCatch([flow[p] EXCEPT !.getToken = "threw"],
                                    PlainError(<<"invalid_grant">>), t)
         IN
         /\ credentials' = IF exchanged THEN FreshCredential("atk_exchanged")
                                        ELSE credentials
         /\ flow' = [flow EXCEPT ![p] = g]
         /\ call' = [call EXCEPT ![p] = AwaitFlow(@, flow[p], g, credentials')]
    /\ UNCHANGED <<outside, config, service, thrown, tokenFile, network>>

\* the 5-minute timer is due and its callback runs
Timeout(p) ==
    /\ flow[p].timer = "armed"
    /\ flow[p].due <= DateNow
    /\ flow' = [flow EXCEPT ![p] = OnTimeout(@)]
    /\ call' = [call EXCEPT ![p] = AwaitFlow(@, flow[p], OnTimeout(flow[p]), credentials)]
    /\ UNCHANGED <<outside, config, service, thrown, tokenFile, credentials, network>>

\* one period passes
Tick ==
    /\ tokenFile' = [tokenFile EXCEPT !.content = Age(@)]
    /\ credentials' = Age(credentials)
    /\ call' = [p \in Callers |-> [call[p] EXCEPT !.content = Age(@)]]
    /\ flow' = [p \in Callers |->
                  [flow[p] EXCEPT !.due = IF flow[p].timer = "armed"
                                          THEN Max(@ - 1, DateNow) ELSE @]]
    /\ cacheExpiry' = [k \in DOMAIN cacheExpiry |-> Max(cacheExpiry[k] - 1, DateNow)]
    /\ UNCHANGED <<logout, enabled, cache, lookup, batch, config, service, thrown,
                   network>>

\* --------------------------------------------------------- specifications
Step(EndThrows) ==
    \/ FromEnvironment
    \/ CreateFromEnvironment
    \/ Constructor
    \/ \E p \in Callers :
         \/ Authenticate(p)
         \/ LoadTokens(p)
         \/ IsTokenValid(p)
         \/ RefreshToken(p)
         \/ SaveRefreshed(p)
         \/ SaveTokens(p)
         \/ HandleRequest(p, EndThrows)
         \/ GetToken(p, EndThrows)
         \/ Timeout(p)
    \/ Tick

\* res.end() returns normally
Next == Step({FALSE})

Spec == Init /\ [][Next]_vars

SpecAnyConfig == InitAnyConfig /\ [][Next]_vars

SpecAnyFile == InitAnyFile /\ [][Next]_vars

SpecAnyRedirect == InitAnyRedirect /\ [][Next]_vars

\* res.end() may throw, in the handler and again in its catch block
NextEndThrows == Step(BOOLEAN)

SpecEndThrows == Init /\ [][NextEndThrows]_vars

\* authenticate() and logout() on the one AuthService
NextLogout ==
    \/ Next
    \/ Logout
    \/ RevokeCredentials
    \/ Unlink

SpecLogout == Init /\ [][NextLogout]_vars

\* the Context7Service of a manager: calls, fetches, switches and time
InitContext7 == InitFrom({CompleteConfig}, {NoFile})

NextContext7 ==
    \/ \E d \in DocCallers :
         \/ GetRelevantDocumentation(d, DocRequests)
         \/ FetchFromContext7(d)
    \/ SetEnabled
    \/ ClearCache
    \/ Tick

SpecContext7 == InitContext7 /\ [][NextContext7]_vars

\* the Context7Service asked through getDocumentation() as well
NextKeys ==
    \/ \E d \in DocCallers :
         \/ GetRelevantDocumentation(d, KeyRequests)
         \/ FetchFromContext7(d)
    \/ SetEnabled
    \/ ClearCache
    \/ Tick

SpecKeys == InitContext7 /\ [][NextKeys]_vars

\* the Context7Service with one more caller of getRelevantDocumentation
InitCrowd == InitLookups({CompleteConfig}, {NoFile}, Crowd)

NextCrowd ==
    \/ \E d \in Crowd :
         \/ GetRelevantDocumentation(d, DocRequests)
         \/ FetchFromContext7(d)
    \/ SetEnabled
    \/ ClearCache
    \/ Tick

SpecCrowd == InitCrowd /\ [][NextCrowd]_vars

\* performBatchOperation() of an initialised or failing GmailService
NextBatch ==
    \/ PerformBatchOperation
    \/ BatchSwitch
    \/ BatchLabels

SpecBatch == InitContext7 /\ [][NextBatch]_vars

\* time passes, and a timer that is due runs its callback
FairSpec ==
    /\ Spec
    /\ WF_vars(Tick)
    /\ \A p \in Callers : WF_vars(Timeout(p))

\* --------------------------------------------------------------- claims
Settled(f) == f.promise \in {"resolved", "rejected"}

TimeoutError == AuthenticationError(<<"Authentication timeout - please try again">>)

\* C1: within one run of performOAuth2Flow the listener is closed
\* (server.destroy) exactly once, whichever way the flow ends.
C1_ClosedExactlyOnce ==
    \A p \in Callers :
        /\ flow[p].destroyCalls <= 1
        /\ Settled(flow[p]) => flow[p].destroyCalls = 1

\* C2: once the flow has resolved or failed through a callback request, its
\* 5-minute watchdog never fires.
C2_WatchdogCancelled ==
    \A p \in Callers :
        flow[p].by \in {"request", "getToken", "catch"} => flow[p].timer /= "fired"

\* C3: at most one interactive flow is in progress at any time, whatever the
\* interleaving of authenticate() calls on the one AuthService.
C3_OneFlowAtATime ==
    Cardinality({ p \in Callers : flow[p].promise = "pending" }) <= 1

ValidityCheckPasses(p) ==
    /\ call[p].pc = "getTokenInfo"
    /\ call'[p].pc \in {"returned", "refreshAccessToken"}

\* C5: for a credential whose expiry is at most 5 minutes after the current
\* time (exactly 5 minutes included), authenticate() performs exactly one
\* refresh before it returns: when the token info of such a credential is
\* obtained, the refresh is called once and the call does not return yet.
C5_RefreshWithinFiveMinutes ==
    [][\A p \in Callers :
          ( /\ ValidityCheckPasses(p)
            /\ credentials.expiry_date /= NoExpiry
            /\ credentials.expiry_date - DateNow <= FiveMinutes )
          => /\ call'[p].refreshes = 1
             /\ call'[p].pc = "refreshAccessToken"]_vars

\* C6: when the credential's expiry is more than 5 minutes in the future and
\* the validity check passes, authenticate() returns the client at once: no
\* refresh, no interactive flow (no listener, no browser), credentials kept.
C6_ValidTokenReturnsAtOnce ==
    [][\A p \in Callers :
          ( /\ ValidityCheckPasses(p)
            /\ credentials.expiry_date /= NoExpiry
            /\ credentials.expiry_date - DateNow > FiveMinutes )
          => /\ call'[p].pc = "returned"
             /\ call'[p].refreshes = 0
             /\ call'[p].error = NoError
             /\ flow'[p] = NoFlow
             /\ credentials' = credentials]_vars

C6_Witness ==
    \E p \in Callers :
        /\ call[p].pc = "returned"
        /\ call[p].refreshes = 0
        /\ flow[p] = NoFlow
        /\ credentials.access_token = "atk_stored"
        /\ credentials.expiry_date /= NoExpiry
        /\ credentials.expiry_date - DateNow > FiveMinutes

\* C7: with the client id or the client secret missing, construction or
\* initialization fails with an AuthenticationError before any network or
\* browser action: nothing else is thrown, no request is issued, no browser
\* is opened and no authenticate() call returns a client.
C7_MissingConfigFails ==
    MissingCredentials(config) =>
        /\ service = "failed" => thrown.name = "AuthenticationError"
        /\ ~network
        /\ \A p \in Callers : ~flow[p].browser /\ call[p].pc /= "returned"

C9_ErrorCallbackFails ==
    \A p \in Callers :
        LET f == flow[p]
            code == SearchParam(f.first, "code=")
            error == SearchParam(f.first, "error=")
            failed(piece) ==
                /\ f.promise = "rejected"
                /\ f.reason.name = "AuthenticationError"
                /\ Contains(f.reason.message, piece)
                /\ f.server = "destroyed"
                /\ f.getToken = "none"
                /\ call[p].pc = "threw"
                /\ call[p].error.name = "AuthenticationError"
                /\ Contains(call[p].error.message, piece)
        IN  f.first /= <<>> =>
                /\ Truthy(error) => failed(error)
                /\ ~Truthy(error) /\ ~Truthy(code) =>
                       failed("No authorization code received")

C9_Witness ==
    \E p \in Callers :
        /\ flow[p].first = Url(<<"/oauth2callback">>, NULL, "access_denied")
        /\ Contains(call[p].error.message, "access_denied")
        /\ flow[p].server = "destroyed"

\* C10: the listener is stopped on every exit of the flow's request handler,
\* also when the response write throws, and the flow then still reaches a
\* resolution: once a callback request has been handled the server is
\* destroyed, and the flow is settled unless the token exchange is awaited.
C10_StoppedEvenIfWriteThrows ==
    \A p \in Callers :
        flow[p].matched > 0 =>
            /\ flow[p].server = "destroyed"
            /\ Settled(flow[p]) \/ flow[p].getToken = "pending"

\* C11: a save of the credential during authenticate() either persists it or
\* makes the call fail: a call that leaves a save (the one after the flow or
\* the one after a refresh) has thrown, or has returned with the record it
\* was saving in the token file.
C11_SaveFailureIsFatal ==
    [][\A p \in Callers :
          ( /\ call[p].pc \in {"saveRefreshed", "saveTokens"}
            /\ call'[p].pc /= call[p].pc )
          => \/ call'[p].pc = "threw"
             \/ /\ call'[p].pc = "returned"
                /\ tokenFile'.exists
                /\ tokenFile'.content = call[p].content]_vars

\* the steps of authenticate() before the interactive flow: the load of the
\* token file, the validity check, the refresh and the save of the refresh
BeforeFlow == {"loadTokens", "getTokenInfo", "refreshAccessToken", "saveRefreshed"}

\* C12: a failed load, a failed or throwing validity check and a failed
\* refresh are never surfaced: no step of authenticate() before the flow
\* throws or records an error (it goes on, returns, or enters the flow), and
\* a call throws only when its flow is rejected or the save after it fails.
C12_EarlyFailuresAbsorbed ==
    [][\A p \in Callers :
          /\ call[p].pc \in BeforeFlow =>
                /\ call'[p].pc \in BeforeFlow \cup {"returned", "performOAuth2Flow"}
                /\ call'[p].error = NoError
                /\ (call'[p].pc = "performOAuth2Flow" /\ call[p].pc /= "performOAuth2Flow")
                      => flow'[p].promise = "pending"
          /\ (call'[p].pc = "threw" /\ call[p].pc /= "threw") =>
                \/ call[p].pc = "performOAuth2Flow" /\ flow'[p].promise = "rejected"
                \/ call[p].pc = "saveTokens"]_vars

C12_Witness ==
    \E p \in Callers :
        /\ call[p].pc = "performOAuth2Flow"
        /\ call[p].refreshes = 1
        /\ call[p].error = NoError
        /\ flow[p].promise = "pending"
        /\ flow[p].browser

\* C13: when the interactive flow times out, is denied or fails the token
\* exchange, the error reaching the caller of authenticate() and the error
\* reaching the caller of the manager's initialize() or of a mail operation
\* are AuthenticationErrors with code AUTHENTICATION_ERROR.
C13_TypedAuthenticationError ==
    \A p \in Callers :
        (call[p].pc = "threw" /\ flow[p].promise = "rejected") =>
            /\ call[p].error.name = "AuthenticationError"
            /\ call[p].error.code = "AUTHENTICATION_ERROR"
            /\ GmailInitialize(call[p]).error.name = "AuthenticationError"
            /\ GmailInitialize(call[p]).error.code = "AUTHENTICATION_ERROR"

\* the step in which authenticate() of caller p returns the client
Returns(p) == call[p].pc /= "returned" /\ call'[p].pc = "returned"

\* C14: a record lacking access_token is never used to authorize API calls:
\* whenever authenticate() returns the client, the credential installed in
\* it has an access_token, and getAuthenticatedClient() hands the client out
\* only when it has one.
C14_AccessTokenPresent ==
    [][/\ \A p \in Callers : Returns(p) => Truthy(credentials'.access_token)
       /\ GetAuthenticatedClient(credentials').client
             => Truthy(credentials'.access_token)]_vars

\* the step in which logout() ends, by returning or by throwing
LogoutEnds == logout.pc \notin {"returned", "threw"} /\ logout'.pc \in {"returned", "threw"}

\* C15: when a logout() call ends, whatever the outcome of the revocation,
\* the token file is gone (a load yields no credential) and the client holds
\* no access token.
C15_LogoutClears ==
    [][LogoutEnds => /\ ~tokenFile'.exists
                     /\ ~Truthy(credentials'.access_token)]_vars

\* the step in which a save of caller p has written the token file
Saves(p) == call[p].pc \in {"saveRefreshed", "saveTokens"} /\ call'[p].pc = "returned"

\* C16: after every save of a credential the token file has owner-only
\* read/write permissions (mode 600), whatever the file was before the save.
C16_SavedOwnerOnly ==
    [][\A p \in Callers : Saves(p) => tokenFile'.exists /\ tokenFile'.mode = "0600"]_vars

\* C17: the port the callback listener binds to is the port of the
\* configured redirect URI (3000 for the default one): a listening server of
\* a flow is on the port the redirect goes to.
C17_ListensOnRedirectPort ==
    \A p \in Callers :
        flow[p].server = "listening" => CallbackPort = config.redirectUri.port

\* the step in which caller d calls getRelevantDocumentation()
DocCall(d) == lookup[d].pc \in {"idle", "returned"} /\ lookup'[d] /= lookup[d]

\* the step in which the fetch of caller d ends
FetchEnds(d) == lookup[d].pc = "fetchFromContext7" /\ lookup'[d].pc /= "fetchFromContext7"

\* C18: with the cache enabled, a fetched response is kept for 30 minutes
\* from its fetch, and a call for a key finds it or fetches: a call within
\* the 30 minutes returns the cached response without invoking the fetch (so
\* two sequential calls fetch once), a call after them invokes the fetch.
C18_FetchOncePerWindow ==
    [][\A d \in DocCallers :
          /\ (FetchEnds(d) /\ lookup'[d].source = "fetch") =>
                /\ cache'[lookup[d].key] = lookup'[d].result
                /\ cacheExpiry'[lookup[d].key] = DateNow + CacheDuration
          /\ (DocCall(d) /\ enabled) =>
                LET key == lookup'[d].key IN
                IF /\ key \in DOMAIN cache
                   /\ key \in DOMAIN cacheExpiry
                   /\ cacheExpiry[key] - DateNow > 0
                THEN /\ lookup'[d].pc = "returned"
                     /\ lookup'[d].source = "cache"
                     /\ lookup'[d].result = cache[key]
                     /\ cache' = cache
                     /\ cacheExpiry' = cacheExpiry
                ELSE lookup'[d].pc = "fetchFromContext7"]_vars

C18_Witness ==
    \E d, e \in DocCallers :
        /\ lookup[d].source = "cache"
        /\ lookup[d].result.found
        /\ lookup[e].pc = "fetchFromContext7"
        /\ lookup[e].key = lookup[d].key

\* C19: while the service is disabled, every getRelevantDocumentation call
\* returns no result without invoking the fetch and without touching the
\* cache, also for a key that has a live cached entry.
C19_DisabledShortCircuits ==
    [][\A d \in DocCallers :
          (DocCall(d) /\ ~enabled) =>
              /\ lookup'[d].pc = "returned"
              /\ ~lookup'[d].result.found
              /\ cache' = cache
              /\ cacheExpiry' = cacheExpiry]_vars

C19_Witness ==
    \E d \in DocCallers :
        /\ ~enabled
        /\ lookup[d].source = "disabled"
        /\ lookup[d].pc = "returned"
        /\ \E k \in DOMAIN cache : k \in DOMAIN cacheExpiry /\ cacheExpiry[k] > DateNow

\* C20: when the fetch fails, getRelevantDocumentation returns no result,
\* stores nothing in the cache and does not throw: the manager operation
\* that asked for the documentation goes on to its mail operation.
C20_FetchFailureAbsorbed ==
    [][\A d \in DocCallers :
          (FetchEnds(d) /\ lookup'[d].source = "error") =>
              /\ lookup'[d].pc = "returned"
              /\ ~lookup'[d].result.found
              /\ cache' = cache
              /\ cacheExpiry' = cacheExpiry
              /\ PrimaryOperation(lookup'[d]) = "called"]_vars

C20_Witness ==
    \E d \in DocCallers :
        /\ lookup[d].source = "error"
        /\ lookup[d].pc = "returned"
        /\ lookup[d].key \notin DOMAIN cache
        /\ PrimaryOperation(lookup[d]) = "called"


\* the callers whose fetch for key is in flight
Fetching(key) ==
    { d \in DOMAIN lookup :
        lookup[d].pc = "fetchFromContext7" /\ lookup[d].key = key }

\* C21: concurrent getRelevantDocumentation calls on one key that find no
\* live entry cost at most one extra fetch: at no time are more than two
\* fetches for the same key in flight, whatever the number of callers.
C21_AtMostOneExtraFetch ==
    \A r \in DocRequests :
        Cardinality(Fetching(CacheKey(r.operation, r.context))) <= 2


\* the keys of the entries whose expiry time has not passed
LiveKeys ==
    { k \in DOMAIN cache : k \in DOMAIN cacheExpiry /\ DateNow < cacheExpiry[k] }

\* C22: getCacheStats() reports exactly the live keys: no key whose expiry
\* time has passed is among its keys, and its size is the number of live
\* entries.
C22_StatsLiveOnly ==
    /\ GetCacheStats.keys = LiveKeys
    /\ GetCacheStats.size = Cardinality(LiveKeys)


\* C23: clearCache() wipes every entry unconditionally: right after it
\* getCacheStats() is {size: 0, keys: []}, also right after a fetch stored
\* an entry, and with the service enabled or disabled.
C23_ClearWipesAll ==
    [][ClearCache => GetCacheStats' = [size |-> 0, keys |-> {}]]_vars

C23_Witness ==
    /\ ~enabled
    /\ GetCacheStats = [size |-> 0, keys |-> {}]
    /\ \E d \in DocCallers :
         /\ lookup[d].source = "fetch"
         /\ \A e \in DocCallers \ {d} : lookup[e] = NoLookup


\* the entry of key is in the cache and its expiry time has come
Stale(key) ==
    /\ key \in DOMAIN cache
    /\ key \in DOMAIN cacheExpiry => cacheExpiry[key] <= DateNow

\* the step is a lookup of key, by an enabled service, that finds it stale
StaleLookup(key) ==
    \E d \in DocCallers :
        DocCall(d) /\ enabled /\ lookup'[d].key = key /\ Stale(key)

\* C24: a lookup never returns a cached entry at or after its expiry time;
\* a lookup that finds the entry of its key stale deletes it; and an entry
\* leaves the cache only by such a lookup of its own key or by clearCache():
\* expired entries are never swept.
C24_LazyEviction ==
    [][/\ \A d \in DocCallers :
            /\ (DocCall(d) /\ lookup'[d].source = "cache") =>
                  /\ lookup'[d].key \in DOMAIN cacheExpiry
                  /\ DateNow < cacheExpiry[lookup'[d].key]
                  /\ lookup'[d].result = cache[lookup'[d].key]
            /\ (DocCall(d) /\ enabled /\ Stale(lookup'[d].key)) =>
                  /\ lookup'[d].key \notin DOMAIN cache'
                  /\ lookup'[d].key \notin DOMAIN cacheExpiry'
       /\ \A k \in (DOMAIN cache \ DOMAIN cache')
                      \cup (DOMAIN cacheExpiry \ DOMAIN cacheExpiry') :
            ClearCache \/ StaleLookup(k)]_vars

C24_Witness ==
    \E d, e \in DocCallers :
        /\ lookup[e].source = "fetch"
        /\ lookup[d].pc = "fetchFromContext7"
        /\ lookup[d].key = lookup[e].key
        /\ lookup[d].key \notin DOMAIN cache
        /\ \E k \in DOMAIN cache : cacheExpiry[k] = DateNow


\* C25: performBatchOperation with an action outside EmailAction fails with
\* an APIError of status code 400 and issues no remote call, neither the
\* main action nor the additional-labels step.
C25_UnknownActionIs400 ==
    (/\ batch.pc = "threw"
     /\ batch.at = "catch"
     /\ batch.operation.action \notin EmailAction) =>
        /\ batch.error.name = "APIError"
        /\ batch.error.statusCode = 400
        /\ batch.remote = <<>>


\* C26: in every reachable state of the Context7Service the value map and
\* the expiry map have the same keys, whatever the interleaving of lookups,
\* fetch completions, setEnabled and clearCache().
C26_MapsInStep == DOMAIN cache = DOMAIN cacheExpiry

C26_Witness ==
    /\ Cardinality(DOMAIN cache) = 1
    /\ DOMAIN cacheExpiry = DOMAIN cache
    /\ ~enabled
    /\ \E d, e \in DocCallers :
         /\ lookup[d].source = "fetch"
         /\ lookup[e].source = "fetch"
         /\ lookup[d].key /= lookup[e].key


\* every authenticate() call made so far has ended
AllEnded == \A p \in Callers : call[p].pc \in {"idle", "returned", "threw"}

\* C27: getAuthenticatedClient() returns the client only if an authenticate()
\* call on the AuthService has succeeded: once the calls made have ended
\* and none of them returned, it throws AuthenticationError.
C27_ClientOnlyAfterSuccess ==
    (AllEnded /\ \A p \in Callers : call[p].pc /= "returned") =>
        /\ ~GetAuthenticatedClient(credentials).client
        /\ GetAuthenticatedClient(credentials).error.name = "AuthenticationError"


\* the step is one of the flow of caller p (a request handled, the exchange
\* ended, the timer fired): more than the passing of time changes the flow
FlowActs(p) == flow'[p] /= [flow[p] EXCEPT !.due = flow'[p].due]

\* C28: an interactive flow that has failed never afterwards modifies the
\* credentials of the client: a token exchange that ends after the watchdog
\* failed the flow installs no tokens.
C28_FailedFlowKeepsCredentials ==
    [][\A p \in Callers :
          (flow[p].promise = "rejected" /\ FlowActs(p)) =>
              credentials' = credentials]_vars


\* C29: a getRelevantDocumentation call that was awaiting its fetch when
\* clearCache() ran does not put its result in the cache: when such a fetch
\* ends, the cache does not gain the entry of its key.
C29_ClearedFetchStoresNothing ==
    [][\A d \in DocCallers :
          (FetchEnds(d) /\ lookup[d].cleared) =>
              (lookup[d].key \in DOMAIN cache' => lookup[d].key \in DOMAIN cache)]_vars


\* the pair of a request once an absent or empty context is 'default'
Pair(r) == <<r.operation, IF r.context = <<>> THEN <<"default">> ELSE r.context>>

\* the documentation a fetch for request r stores
FetchedFor(r) ==
    GetMockDocumentation(MapOperationToSearchTerm(r.operation, r.context))

\* C30: distinct (operation, context) pairs never share a cache entry (an
\* absent or empty context counting as 'default'): when a lookup takes its
\* response from the cache, the response was fetched for the pair the
\* lookup is for, whichever of the requests with its key that is.
C30_DistinctPairsDistinctKeys ==
    [][\A d \in DocCallers :
          (DocCall(d) /\ lookup'[d].source = "cache") =>
              \A r, q \in KeyRequests :
                  (/\ CacheKey(r.operation, r.context) = lookup'[d].key
                   /\ CacheKey(q.operation, q.context) = lookup'[d].key
                   /\ lookup'[d].result = FetchedFor(q)) => Pair(r) = Pair(q)]_vars

====
